---- MODULE Spec2Model ----
(***************************************************************************)
(* The evidence pool of go-kardia (package evidence, pool.go): the durable *)
(* pending and committed namespaces, the in-memory gossip list, the atomic *)
(* size counter, the chain state and the pruning watermark, with every     *)
(* exported operation of the pool broken into the steps at which it reads  *)
(* or writes shared state, so that calls of several tasks interleave.      *)
(***************************************************************************)
EXTENDS Integers, Sequences, FiniteSets, TLC

\* ------------------------------------------------------------------ bounds
\* tasks calling into the one shared pool
NumTasks == 2
\* evidence items 1..NumEvidence; item e pertains to height e
NumEvidence == 2
\* the chain grows up to this height
MaxHeight == 4
\* longest evidence list handed to CheckEvidence
MaxList == 2
\* longest evidence list of a committed block, handed to Update
MaxCommitted == 1
\* evidence items 1..ConcEvidence are submitted by overlapping calls
ConcEvidence == 1
\* largest MaxAgeNumBlocks of the consensus parameters
MaxAgeBlocks == 1

\* largest size cap handed to PendingEvidence
MaxBytes == 5
\* most records in the store when evidence of many heights is listed
MaxKeys == 3
\* votes the vote pool appends to its list
MaxVotes == 3
\* senders of transactions
NumSenders == 2
\* highest nonce of a transaction
MaxNonce == 2
\* config.GlobalSlots: most pending transactions of one sender
GlobalSlots == 2
\* highest limit handed to Pending
MaxLimit == 2
\* deposits, and validator sets, offered to the reactor
MaxEvents == 3

Tasks == 1 .. NumTasks
TxSenders == 1 .. NumSenders
Evidence == 1 .. NumEvidence
\* evidence that carries a time older than every block's
Backdated == { NumEvidence + 1 }
\* evidence of heights whose hexadecimal forms differ in length
KeyEvidence == { 9, 10, 16, 255, 256 }
\* the size caps handed to PendingEvidence
ByteCaps == -2 .. MaxBytes

\* ------------------------------------------------------- evidence (types)
\* Evidence.Height(), Evidence.Time(), Evidence.Hash(): an evidence item is
\* identified by its hash; its height and its time are fields of the item.
Height(e) == e
\* the time of the block at height h: one second per block
BlockTime(h) == h
Time(e) == IF e \in Evidence THEN BlockTime(Height(e)) ELSE 0
Hash(e) == e
\* common.HashLength, in bytes
HashLength == 4

\* fmt's %X of one hexadecimal digit, as the byte it prints
HexChar(d) == IF d < 10 THEN 48 + d ELSE 55 + d
\* fmt's %X of an unsigned integer: no leading zeros
RECURSIVE HexDigits(_)
HexDigits(n) ==
    IF n < 16 THEN << HexChar(n) >>
    ELSE Append(HexDigits(n \div 16), HexChar(n % 16))
\* a precision or width w with the 0 flag: '0' bytes to the left up to w
PadZero(s, w) ==
    IF Len(s) >= w THEN s ELSE [i \in 1 .. w - Len(s) |-> 48] \o s

\* the height printed with %X, no padding
bEUnpadded(h) == HexDigits(h)
\* bE: "%0.16X", big endian padded hex
bE(h) == PadZero(HexDigits(h), 16)
\* %X of the hash, a byte array: two digits a byte
HashHex(hash) == PadZero(HexDigits(hash), 2 * HashLength)

\* keySuffix: "%s/%X" of bE(height) and the hash; 47 is '/'
keySuffix(e) == bE(Height(e)) \o << 47 >> \o HashHex(Hash(e))
keyPending(e) == keySuffix(e)
keyCommitted(e) == keySuffix(e)
evMapKey(e) == Hash(e)

\* the store's key order: bytes.Compare
KeyLess(k1, k2) ==
    LET n == IF Len(k1) < Len(k2) THEN Len(k1) ELSE Len(k2)
        diff == { i \in 1 .. n : k1[i] # k2[i] }
    IN  IF diff = {} THEN Len(k1) < Len(k2)
        ELSE LET i == CHOOSE x \in diff : \A y \in diff : x <= y
             IN  k1[i] < k2[i]

\* the evidence parameters a chain state can carry: evidence that stays valid
\* for as long as the chain is, whatever its age in blocks, and evidence that
\* expires by its age in blocks as soon as its block is not the last
ConsensusParams ==
    { [MaxAgeNumBlocks |-> 0, MaxAgeDuration |-> MaxHeight - 1],
      [MaxAgeNumBlocks |-> MaxAgeBlocks, MaxAgeDuration |-> 0] }

\* the chain states a block commit can hand to the pool
ChainStates ==
    { [LastBlockHeight |-> h, LastBlockTime |-> BlockTime(h),
       MaxAgeNumBlocks |-> p.MaxAgeNumBlocks,
       MaxAgeDuration |-> p.MaxAgeDuration] :
         h \in 1 .. MaxHeight, p \in ConsensusParams }

\* the evidence lists of at most n items of E, duplicates included
RECURSIVE ListsUpTo(_, _)
ListsUpTo(E, n) ==
    IF n = 0 THEN { <<>> }
    ELSE ListsUpTo(E, n - 1) \cup
         { Append(l, e) : l \in { x \in ListsUpTo(E, n - 1) : Len(x) = n - 1 },
                          e \in E }

\* ------------------------------------------------------------------- state
VARIABLES
    pendingDB,       \* evidenceDB under "evidence-pending": key -> evidence
    committedDB,     \* evidenceDB under "evidence-committed": key -> height
    evidenceList,    \* the clist, front first
    evidenceSize,    \* the uint32 counter, see Size
    state,           \* evpool.state
    pruningHeight,
    pruningTime,
    task,            \* per task: the call in progress and its locals
    snap             \* the pool as it was when the only call in progress began

\* the dual node's consensus reactor (reactor.go): the list of votes of its
\* pool and the broadcast routine it runs for a peer
VARIABLES
    voteList,        \* the clist of the vote pool: element -> removed, next
    running,         \* IsRunning() of the peer and of the reactor
    bcast,           \* broadcastVoteRoutine(peer): position, cursor, sent
    runloop          \* run(): position, result, the channels' senders

reactorVars == <<voteList, running, bcast, runloop>>

\* the transaction pool (tx_pool.go)
VARIABLES
    txpool,          \* pending, promotableQueue, all, addressState, pendingSize
    txlife           \* the event loop, the subscription, wg, and Stop

txVars == <<txpool, txlife>>

vars == <<pendingDB, committedDB, evidenceList, evidenceSize, state,
          pruningHeight, pruningTime, task, snap, voteList, running, bcast,
          runloop, txpool, txlife>>
poolVars == <<pendingDB, committedDB, evidenceList, evidenceSize, state,
              pruningHeight, pruningTime>>
evidenceVars == <<poolVars, task, snap>>

EmptyDB == [k \in {} |-> 0]
NoSnap == [none |-> TRUE]
NoEv == 0

Pool ==
    [pendingDB |-> pendingDB, committedDB |-> committedDB,
     evidenceList |-> evidenceList, evidenceSize |-> evidenceSize,
     state |-> state, pruningHeight |-> pruningHeight,
     pruningTime |-> pruningTime]

\* ------------------------------------------------------ durable store (kaidb)
Has(db, k) == k \in DOMAIN db
Put(db, k, v) == (k :> v) @@ db
Delete(db, k) == [x \in DOMAIN db \ {k} |-> db[x]]

\* NewIterator(prefix): the values of the keys under the prefix, in the
\* store's key order, as they were when the iterator was made.
RECURSIVE SortedKeys(_)
SortedKeys(S) ==
    IF S = {} THEN <<>>
    ELSE LET m == CHOOSE k \in S : \A j \in S \ {k} : KeyLess(k, j)
         IN  <<m>> \o SortedKeys(S \ {m})
NewIterator(db) ==
    LET keys == SortedKeys(DOMAIN db)
    IN  [i \in 1 .. Len(keys) |-> db[keys[i]]]

\* ------------------------------------------------------------ pool helpers
\* evidenceSize holds the uint32 counter as its signed residue modulo 2^32:
\* -1 stands for 2^32 - 1, the value atomic.AddUint32(&n, ^uint32(0)) leaves
\* in a counter that was 0.
\* a store of the operand where the addition belongs
AddUint32Store(n, d) == d
AddUint32(n, d) == n + d
Size == evidenceSize
SizeIsPositive == Size # 0

\* isPending looking under the committed prefix
isPendingWrongPrefix(e) == Has(committedDB, keyPending(e))
isPending(e) == Has(pendingDB, keyPending(e))
\* isCommitted looking under the pending prefix
isCommittedWrongPrefix(e) == Has(pendingDB, keyCommitted(e))
isCommitted(e) == Has(committedDB, keyCommitted(e))
\* fastCheck finding nothing verified before
fastCheckNever(e) == FALSE
\* the fast path taking every item for known
fastCheckAlways(e) == TRUE
fastCheck(e) == isPending(e)

\* ageNumBlocks is a uint64 difference: below zero it wraps to
\* 2^64 - (height - LastBlockHeight), which exceeds every MaxAgeNumBlocks.
AgeNumBlocksExceeds(lastHeight, height, maxAge) ==
    IF lastHeight >= height THEN lastHeight - height > maxAge ELSE TRUE

\* isExpired with either age limit sufficing
isExpiredEitherBound(st, height, time) ==
    \/ AgeNumBlocksExceeds(st.LastBlockHeight, height, st.MaxAgeNumBlocks)
    \/ st.LastBlockTime - time > st.MaxAgeDuration
\* isExpired under the chain state st
isExpiredAt(st, height, time) ==
    /\ AgeNumBlocksExceeds(st.LastBlockHeight, height, st.MaxAgeNumBlocks)
    /\ st.LastBlockTime - time > st.MaxAgeDuration
isExpired(height, time) == isExpiredAt(state, height, time)

\* verify under the chain state st: the evidence is not from the future and
\* has not expired (the signatures of every item of Evidence are genuine).
verifyAt(st, e) ==
    /\ Height(e) <= st.LastBlockHeight
    /\ ~isExpiredAt(st, Height(e), Time(e))
verify(e) == verifyAt(state, e)

\* the chain's height and time returned whatever record the scan stopped at
WatermarkOfChain(st, e) ==
    [height |-> st.LastBlockHeight, time |-> st.LastBlockTime]
\* the watermark removeExpiredPendingEvidence returns: for the first record
\* that has not expired, the point at which it will have; with no such
\* record (e = NoEv), the chain's height and time.
Watermark(st, e) ==
    IF e = NoEv
    THEN [height |-> st.LastBlockHeight, time |-> st.LastBlockTime]
    ELSE [height |-> Height(e) + st.MaxAgeNumBlocks + 1,
          time |-> Time(e) + st.MaxAgeDuration + 1]

removeEvidenceFromList(list, blockEvidenceMap) ==
    SelectSeq(list, LAMBDA e : evMapKey(e) \notin blockEvidenceMap)

\* the element put at the front of the list
PushFront(list, e) == <<e>> \o list
PushBack(list, e) == Append(list, e)

\* serialized size of one item inside kproto.EvidenceData
EvBytes(e) == 1 + Height(e)

\* a stored record whose bytes were damaged: the record of e that no longer
\* unmarshals
Corrupted(e) == -e
\* evpb.Unmarshal(iter.Value()) returns no error (bytesToEv likewise)
Unmarshals(v) == v > 0

\* listEvidence over an iterator: stops before the item that takes the
\* accumulated size over maxBytes; -1 is no cap. A record that does not
\* unmarshal ends the scan: what was gathered is returned with the error.
RECURSIVE listEvidenceFrom(_, _, _, _)
listEvidenceFrom(iter, evidence, totalSize, maxBytes) ==
    IF iter = <<>>
    THEN [evidence |-> evidence, size |-> totalSize, err |-> FALSE]
    ELSE IF ~Unmarshals(Head(iter))
    THEN [evidence |-> evidence, size |-> totalSize, err |-> TRUE]
    ELSE LET e == Head(iter)
             evSize == totalSize + EvBytes(e)
         IN  IF maxBytes # -1 /\ evSize > maxBytes
             THEN [evidence |-> evidence, size |-> totalSize, err |-> FALSE]
             ELSE listEvidenceFrom(Tail(iter), Append(evidence, e), evSize, maxBytes)
\* listEvidence taking every cap for -1
listEvidenceUncapped(maxBytes) ==
    listEvidenceFrom(NewIterator(pendingDB), <<>>, 0, -1)
listEvidence(maxBytes) == listEvidenceFrom(NewIterator(pendingDB), <<>>, 0, maxBytes)

\* a scan that deletes the records it returned
ScannedAndDeleted(db, listed) ==
    [k \in DOMAIN db \ { keyPending(listed[i]) : i \in DOMAIN listed } |-> db[k]]
\* the store after listEvidence has returned listed: the iterator only reads
Scanned(db, listed) == db

PendingEvidence(maxBytes) ==
    IF Size = 0
    THEN [evidence |-> <<>>, size |-> 0, err |-> FALSE]
    ELSE listEvidence(maxBytes)

\* ------------------------------------------------------------------- tasks
NoState == [none |-> TRUE]
Idle ==
    [pc |-> "idle", op |-> "none", ev |-> NoEv, evs |-> <<>>, idx |-> 0,
     st |-> NoState, map |-> {}, iter |-> <<>>, ret |-> "none", rev |-> NoEv,
     maxBytes |-> 0, out |-> <<>>, size |-> 0,
     verified |-> {}, failed |-> {}, pruned |-> FALSE, access |-> "none"]

\* the call of task r has read or written evpool.state: through State() or
\* updateState, which hold evpool.mtx (locked), or as the field (unlocked)
Accessed(r, how) == [r EXCEPT !.access = how]

Running(t) == task[t].pc \notin {"idle", "done"}
OthersIdle(t) == \A u \in Tasks \ {t} : task[u].pc = "idle"

\* a call that begins while no other call is in progress remembers the pool
BeginSnap(t) == snap' = IF OthersIdle(t) THEN Pool ELSE NoSnap

\* the call of task r returns ret (and, in an ErrInvalidEvidence, the item)
Done(r, ret, rev) ==
    [r EXCEPT !.pc = "done", !.ret = ret, !.rev = rev, !.idx = 0, !.map = {},
              !.iter = <<>>]

\* a step of the call of task t: the task's record changes, and nothing
\* outside the evidence pool does
Set(t, r) ==
    /\ task' = [task EXCEPT ![t] = r]
    /\ UNCHANGED <<reactorVars, txVars>>
Cur(t) == task[t]

\* the store failed the write of the call of task r for its item ev
Failed(r) == [r EXCEPT !.failed = @ \cup {r.ev}]

\* ------------------------------------------------- addPendingEvidence steps
\* CheckEvidence, after the item at idx was accepted: the duplicate check
\* against the hashes of the earlier items, then the next item or the return.
CheckNext(r) ==
    IF \E i \in 1 .. r.idx - 1 : Hash(r.evs[i]) = Hash(r.evs[r.idx])
    THEN Done(r, "ErrInvalidEvidence:duplicate", r.evs[r.idx])
    ELSE IF r.idx = Len(r.evs)
         THEN Done(r, "nil", NoEv)
         ELSE [r EXCEPT !.pc = "chk_fast", !.idx = r.idx + 1,
                        !.ev = r.evs[r.idx + 1]]

\* the error of Put taken for success: the caller goes on to PushBack
PutFailedIgnored(r) ==
    IF r.op = "CheckEvidence"
    THEN CheckNext(Failed(r))
    ELSE [Failed(r) EXCEPT !.pc = "push"]
\* the error of Put returned by every caller, CheckEvidence included
PutFailedRejects(r) == Done(Failed(r), "error:persist", NoEv)
\* addPendingEvidence returned the error of Put: AddEvidence and
\* AddEvidenceFromConsensus return it; CheckEvidence logs it and goes on
PutFailed(r) ==
    IF r.op = "CheckEvidence"
    THEN CheckNext(Failed(r))
    ELSE Done(Failed(r), "error:persist", NoEv)

\* addPendingEvidence: evidenceDB.Put(key, evBytes)
addPendingPut(t) ==
    /\ Cur(t).pc = "put"
    /\ \E ok \in BOOLEAN :
         IF ok
         THEN /\ pendingDB' = Put(pendingDB, keyPending(Cur(t).ev), Cur(t).ev)
              /\ Set(t, [Cur(t) EXCEPT !.pc = "inc"])
         ELSE /\ UNCHANGED pendingDB
              /\ Set(t, PutFailed(Cur(t)))
    /\ UNCHANGED <<committedDB, evidenceList, evidenceSize, state,
                   pruningHeight, pruningTime, snap>>

\* addPendingEvidence: atomic.AddUint32(&evpool.evidenceSize, 1)
addPendingInc(t) ==
    /\ Cur(t).pc = "inc"
    /\ evidenceSize' = AddUint32(evidenceSize, 1)
    /\ Set(t, IF Cur(t).op = "CheckEvidence"
              THEN CheckNext(Cur(t))
              ELSE [Cur(t) EXCEPT !.pc = "push"])
    /\ UNCHANGED <<pendingDB, committedDB, evidenceList, state,
                   pruningHeight, pruningTime, snap>>

\* evpool.evidenceList.PushBack(ev), and the return of nil
addPushBack(t) ==
    /\ Cur(t).pc = "push"
    /\ evidenceList' = PushBack(evidenceList, Cur(t).ev)
    /\ Set(t, Done(Cur(t), "nil", NoEv))
    /\ UNCHANGED <<pendingDB, committedDB, evidenceSize, state,
                   pruningHeight, pruningTime, snap>>

\* ------------------------------------------------------------- AddEvidence
AddEvidence(t, e) ==
    /\ Cur(t).pc = "idle"
    /\ BeginSnap(t)
    /\ LET r == [Idle EXCEPT !.op = "AddEvidence", !.ev = e]
       IN  Set(t, IF isPending(e)
                  THEN Done(r, "nil", NoEv)
                  ELSE [r EXCEPT !.pc = "add_isCommitted"])
    /\ UNCHANGED poolVars

AddEvidenceIsCommitted(t) ==
    /\ Cur(t).pc = "add_isCommitted"
    /\ Set(t, IF isCommitted(Cur(t).ev)
              THEN Done(Cur(t), "nil", NoEv)
              ELSE [Cur(t) EXCEPT !.pc = "add_verify"])
    /\ UNCHANGED <<poolVars, snap>>

AddEvidenceVerify(t) ==
    /\ Cur(t).pc = "add_verify"
    /\ LET r == Accessed([Cur(t) EXCEPT !.verified = @ \cup {Cur(t).ev}],
                         "locked")
       IN  Set(t, IF verify(r.ev)
                  THEN [r EXCEPT !.pc = "put"]
                  ELSE Done(r, "ErrInvalidEvidence:verify", r.ev))
    /\ UNCHANGED <<poolVars, snap>>

\* ------------------------------------------------ AddEvidenceFromConsensus
AddEvidenceFromConsensus(t, e) ==
    /\ Cur(t).pc = "idle"
    /\ BeginSnap(t)
    /\ LET r == [Idle EXCEPT !.op = "AddEvidenceFromConsensus", !.ev = e]
       IN  Set(t, IF isPending(e)
                  THEN Done(r, "nil", NoEv)
                  ELSE [r EXCEPT !.pc = "put"])
    /\ UNCHANGED poolVars

\* ----------------------------------------------------------- CheckEvidence
\* the item at idx: fastCheck
CheckFast(r) ==
    IF fastCheck(r.ev) THEN CheckNext(r) ELSE [r EXCEPT !.pc = "chk_isCommitted"]

CheckEvidence(t, evList) ==
    /\ Cur(t).pc = "idle"
    /\ BeginSnap(t)
    /\ LET r == [Idle EXCEPT !.op = "CheckEvidence", !.evs = evList]
       IN  Set(t, IF evList = <<>>
                  THEN Done(r, "nil", NoEv)
                  ELSE CheckFast([r EXCEPT !.idx = 1, !.ev = evList[1]]))
    /\ UNCHANGED poolVars

CheckEvidenceFast(t) ==
    /\ Cur(t).pc = "chk_fast"
    /\ Set(t, CheckFast(Cur(t)))
    /\ UNCHANGED <<poolVars, snap>>

CheckEvidenceIsCommitted(t) ==
    /\ Cur(t).pc = "chk_isCommitted"
    /\ Set(t, IF isCommitted(Cur(t).ev)
              THEN Done(Cur(t), "ErrInvalidEvidence:committed", Cur(t).ev)
              ELSE [Cur(t) EXCEPT !.pc = "chk_verify"])
    /\ UNCHANGED <<poolVars, snap>>

CheckEvidenceVerify(t) ==
    /\ Cur(t).pc = "chk_verify"
    /\ LET r == Accessed([Cur(t) EXCEPT !.verified = @ \cup {Cur(t).ev}],
                         "locked")
       IN  Set(t, IF verify(r.ev)
                  THEN [r EXCEPT !.pc = "put"]
                  ELSE Done(r, "ErrInvalidEvidence:verify", r.ev))
    /\ UNCHANGED <<poolVars, snap>>

\* --------------------------------------------------------- PendingEvidence
\* PendingEvidence: Size(), and nil, 0 when it is zero
PendingEvidenceSize(t, maxBytes) ==
    /\ Cur(t).pc = "idle"
    /\ BeginSnap(t)
    /\ LET r == [Idle EXCEPT !.op = "PendingEvidence", !.maxBytes = maxBytes]
       IN  Set(t, IF Size = 0
                  THEN Done(r, "nil", NoEv)
                  ELSE [r EXCEPT !.pc = "pe_list"])
    /\ UNCHANGED poolVars

\* PendingEvidence: listEvidence(baseKeyPending, maxBytes), and the return
PendingEvidenceList(t) ==
    /\ Cur(t).pc = "pe_list"
    /\ LET l == listEvidence(Cur(t).maxBytes)
       IN  /\ Set(t, [Done(Cur(t), "nil", NoEv) EXCEPT !.out = l.evidence,
                                                       !.size = l.size])
           /\ pendingDB' = Scanned(pendingDB, l.evidence)
    /\ UNCHANGED <<committedDB, evidenceList, evidenceSize, state,
                   pruningHeight, pruningTime, snap>>

\* ------------------------------------------------------------------ Update
\* One driver, tied to block commits, calls Update: no two Updates overlap.
\* the sanity check of Update, taking a state of the same height
HeightDecreases(st) == st.LastBlockHeight < state.LastBlockHeight
\* the sanity check of Update
HeightNotIncreasing(st) == st.LastBlockHeight <= state.LastBlockHeight

Update(t, st, evList) ==
    /\ Cur(t).pc = "idle"
    /\ \A u \in Tasks : ~(Running(u) /\ Cur(u).op = "Update")
    /\ BeginSnap(t)
    /\ LET r == Accessed([Idle EXCEPT !.op = "Update", !.st = st,
                                      !.evs = evList], "unlocked")
       IN  Set(t, IF HeightNotIncreasing(st)
                  THEN Done(r, "panic", NoEv)
                  ELSE [r EXCEPT !.pc = "upd_state"])
    /\ UNCHANGED poolVars

updateState(t) ==
    /\ Cur(t).pc = "upd_state"
    /\ state' = Cur(t).st
    /\ Set(t, IF Cur(t).evs = <<>>
              THEN [Accessed(Cur(t), "locked") EXCEPT !.pc = "upd_prune"]
              ELSE [Accessed(Cur(t), "locked") EXCEPT
                      !.pc = "mark_isPending", !.idx = 1,
                      !.ev = Cur(t).evs[1]])
    /\ UNCHANGED <<pendingDB, committedDB, evidenceList, evidenceSize,
                   pruningHeight, pruningTime, snap>>

\* markEvidenceAsCommitted giving up at the item the store failed
MarkNextIfStored(r) ==
    IF r.ev \in r.failed
    THEN Done(r, "error:persist", NoEv)
    ELSE IF r.idx < Len(r.evs)
         THEN [r EXCEPT !.pc = "mark_isPending", !.idx = @ + 1,
                        !.ev = r.evs[r.idx + 1]]
         ELSE [r EXCEPT !.pc = IF r.map # {} THEN "mark_list" ELSE "upd_prune"]
\* markEvidenceAsCommitted, after the marker of the item at idx: the next
\* item, or the end of the loop
MarkNext(r) ==
    IF r.idx < Len(r.evs)
    THEN [r EXCEPT !.pc = "mark_isPending", !.idx = @ + 1,
                   !.ev = r.evs[r.idx + 1]]
    ELSE [r EXCEPT !.pc = IF r.map # {} THEN "mark_list" ELSE "upd_prune"]

\* the marker written for the items that were pending only
MarkIfPending(r, pending) ==
    IF pending THEN [r EXCEPT !.pc = "mark_del"] ELSE MarkNext(r)
\* markEvidenceAsCommitted, the item at idx: a pending item is removed
\* first, and the marker is written for every item
MarkItem(r, pending) ==
    [r EXCEPT !.pc = IF pending THEN "mark_del" ELSE "mark_put"]

\* markEvidenceAsCommitted, the item at idx: isPending
markIsPending(t) ==
    /\ Cur(t).pc = "mark_isPending"
    /\ Set(t, MarkItem(Cur(t), isPending(Cur(t).ev)))
    /\ UNCHANGED <<poolVars, snap>>

\* after removePendingEvidence(ev) returned: the hash joins blockEvidenceMap
\* whether or not the record was deleted
Removed(r) ==
    IF r.pc \in {"mark_del", "mark_dec"}
    THEN [r EXCEPT !.pc = "mark_put", !.map = @ \cup {evMapKey(r.ev)}]
    ELSE [r EXCEPT !.pc = "prune_next", !.map = @ \cup {evMapKey(r.ev)},
                   !.iter = Tail(@)]

\* removePendingEvidence: evidenceDB.Delete(key); an error is logged
removePendingDelete(t) ==
    /\ Cur(t).pc \in {"mark_del", "prune_del"}
    /\ \E ok \in BOOLEAN :
         IF ok
         THEN /\ pendingDB' = Delete(pendingDB, keyPending(Cur(t).ev))
              /\ Set(t, [Cur(t) EXCEPT !.pc = IF Cur(t).pc = "mark_del"
                                              THEN "mark_dec" ELSE "prune_dec"])
         ELSE /\ UNCHANGED pendingDB
              /\ Set(t, Removed(Failed(Cur(t))))
    /\ UNCHANGED <<committedDB, evidenceList, evidenceSize, state,
                   pruningHeight, pruningTime, snap>>

\* removePendingEvidence: atomic.AddUint32(&evpool.evidenceSize, ^uint32(0))
removePendingDec(t) ==
    /\ Cur(t).pc \in {"mark_dec", "prune_dec"}
    /\ evidenceSize' = AddUint32(evidenceSize, -1)
    /\ Set(t, Removed(Cur(t)))
    /\ UNCHANGED <<pendingDB, committedDB, evidenceList, state,
                   pruningHeight, pruningTime, snap>>

\* markEvidenceAsCommitted: evidenceDB.Put(keyCommitted(ev), height); an
\* error is logged
markPut(t) ==
    /\ Cur(t).pc = "mark_put"
    /\ \E ok \in BOOLEAN :
         IF ok
         THEN /\ committedDB' = Put(committedDB, keyCommitted(Cur(t).ev),
                                    Height(Cur(t).ev))
              /\ Set(t, MarkNext(Cur(t)))
         ELSE /\ UNCHANGED committedDB
              /\ Set(t, MarkNext(Failed(Cur(t))))
    /\ UNCHANGED <<pendingDB, evidenceList, evidenceSize, state,
                   pruningHeight, pruningTime, snap>>

\* markEvidenceAsCommitted: removeEvidenceFromList(blockEvidenceMap)
markRemoveFromList(t) ==
    /\ Cur(t).pc = "mark_list"
    /\ evidenceList' = removeEvidenceFromList(evidenceList, Cur(t).map)
    /\ Set(t, [Cur(t) EXCEPT !.pc = "upd_prune", !.map = {}])
    /\ UNCHANGED <<pendingDB, committedDB, evidenceSize, state,
                   pruningHeight, pruningTime, snap>>

\* the pruning condition without its test of the time
ShouldPruneByHeight(st) ==
    /\ SizeIsPositive
    /\ st.LastBlockHeight > pruningHeight
\* Update: the pruning condition, on the state handed to Update
ShouldPrune(st) ==
    /\ SizeIsPositive
    /\ st.LastBlockHeight > pruningHeight
    /\ st.LastBlockTime > pruningTime

updatePruneCheck(t) ==
    /\ Cur(t).pc = "upd_prune"
    /\ Set(t, IF ShouldPrune(Cur(t).st)
              THEN [Cur(t) EXCEPT !.pc = "prune_iter"]
              ELSE Done(Cur(t), "nil", NoEv))
    /\ UNCHANGED <<poolVars, snap>>

\* removeExpiredPendingEvidence: the iterator over the pending prefix
pruneIterator(t) ==
    /\ Cur(t).pc = "prune_iter"
    /\ Set(t, [Cur(t) EXCEPT !.pc = "prune_next", !.map = {},
                             !.iter = NewIterator(pendingDB),
                             !.pruned = TRUE])
    /\ UNCHANGED <<poolVars, snap>>

\* removeExpiredPendingEvidence returns its watermark to Update, which
\* stores it; e is the record the scan stopped at, NoEv when it ran out
pruneReturn(t, e) ==
    /\ pruningHeight' = Watermark(state, e).height
    /\ pruningTime' = Watermark(state, e).time
    /\ Set(t, Done(Cur(t), "nil", NoEv))

\* removeExpiredPendingEvidence: the next record of the iterator; one that
\* bytesToEv rejects is logged and passed over
pruneNext(t) ==
    /\ Cur(t).pc = "prune_next"
    /\ LET r == Accessed(Cur(t), "locked")
           stop == r.iter = <<>> \/ ~isExpired(Height(Head(r.iter)),
                                               Time(Head(r.iter)))
           at == IF r.iter = <<>> THEN NoEv ELSE Head(r.iter)
       IN  IF r.iter # <<>> /\ ~Unmarshals(Head(r.iter))
           THEN /\ Set(t, [r EXCEPT !.iter = Tail(@)])
                /\ UNCHANGED <<pruningHeight, pruningTime>>
           ELSE IF ~stop
           THEN /\ Set(t, [r EXCEPT !.pc = "prune_del", !.ev = at])
                /\ UNCHANGED <<pruningHeight, pruningTime>>
           ELSE IF r.map # {}
                THEN /\ Set(t, [r EXCEPT !.pc = "prune_list", !.ev = at])
                     /\ UNCHANGED <<pruningHeight, pruningTime>>
                ELSE pruneReturn(t, at)
    /\ UNCHANGED <<pendingDB, committedDB, evidenceList, evidenceSize, state,
                   snap>>

\* removeExpiredPendingEvidence: removeEvidenceFromList(blockEvidenceMap),
\* then the return
pruneRemoveFromList(t) ==
    /\ Cur(t).pc = "prune_list"
    /\ evidenceList' = removeEvidenceFromList(evidenceList, Cur(t).map)
    /\ pruneReturn(t, Cur(t).ev)
    /\ UNCHANGED <<pendingDB, committedDB, evidenceSize, state, snap>>

\* the caller takes the result
Return(t) ==
    /\ Cur(t).pc = "done"
    /\ Set(t, Idle)
    /\ snap' = NoSnap
    /\ UNCHANGED poolVars

\* ----------------------------------------------------------------- NewPool
\* removeExpiredPendingEvidence as NewPool runs it, alone: the records of
\* the iterator are deleted up to the first that has not expired, but for
\* those whose Delete the store fails (fail), which stay.
RECURSIVE removeExpiredFrom(_, _, _, _, _)
removeExpiredFrom(st, iter, db, n, fail) ==
    IF iter # <<>> /\ ~Unmarshals(Head(iter))
    THEN removeExpiredFrom(st, Tail(iter), db, n, fail)
    ELSE IF iter = <<>> \/ ~isExpiredAt(st, Height(Head(iter)), Time(Head(iter)))
    THEN [db |-> db, n |-> n,
          mark |-> Watermark(st, IF iter = <<>> THEN NoEv ELSE Head(iter))]
    ELSE IF Head(iter) \in fail
         THEN removeExpiredFrom(st, Tail(iter), db, n, fail)
         ELSE removeExpiredFrom(st, Tail(iter),
                                Delete(db, keyPending(Head(iter))),
                                AddUint32(n, -1), fail)

\* NewPool leaving the list and the counter of an empty pool
NewPoolNoRebuild(st, db, fail) ==
    LET pruned == removeExpiredFrom(st, NewIterator(db), db, 0, fail)
    IN  [pendingDB |-> pruned.db, evidenceList |-> <<>>,
         evidenceSize |-> pruned.n, pruningHeight |-> pruned.mark.height,
         pruningTime |-> pruned.mark.time, err |-> FALSE]
\* NewPool over the durable store db with the loaded chain state st; when
\* listEvidence returns an error NewPool returns it and no pool (err)
NewPool(st, db, fail) ==
    LET pruned == removeExpiredFrom(st, NewIterator(db), db, 0, fail)
        listed == listEvidenceFrom(NewIterator(pruned.db), <<>>, 0, -1)
        evList == IF listed.err THEN <<>> ELSE listed.evidence
    IN  [pendingDB |-> pruned.db, evidenceList |-> evList,
         evidenceSize |-> Len(evList), pruningHeight |-> pruned.mark.height,
         pruningTime |-> pruned.mark.time, err |-> listed.err]

\* what a stop interrupted: the position of every call in progress; and the
\* records whose Delete the store failed when the pool was opened again
Crash(fail) ==
    [crashed |-> { <<Cur(t).op, Cur(t).pc>> : t \in Tasks }, failed |-> fail]

\* the records of the store db that have expired under the chain state st
Expired(st, db) ==
    { db[k] : k \in { x \in DOMAIN db :
                        /\ Unmarshals(db[x])
                        /\ isExpiredAt(st, Height(db[x]), Time(db[x])) } }

\* no pool: NewPool returned an error, and no operation can be called
Down == [Idle EXCEPT !.pc = "down", !.ret = "error:NewPool"]

\* the node stops at any point and starts again on the same stores
Restart ==
    /\ \E t \in Tasks : Cur(t).pc # "idle"
    /\ \E fail \in SUBSET Expired(state, pendingDB) :
         LET p == NewPool(state, pendingDB, fail)
         IN  /\ pendingDB' = p.pendingDB
             /\ evidenceList' = p.evidenceList
             /\ evidenceSize' = p.evidenceSize
             /\ pruningHeight' = p.pruningHeight
             /\ pruningTime' = p.pruningTime
             /\ snap' = Crash(fail)
             /\ task' = [t \in Tasks |-> IF p.err THEN Down ELSE Idle]
    /\ UNCHANGED <<committedDB, state>>
    /\ UNCHANGED <<reactorVars, txVars>>

\* the medium damages a pending record between two calls: its key stays,
\* its bytes no longer unmarshal
Damage ==
    /\ \A t \in Tasks : Cur(t).pc = "idle"
    /\ \E k \in DOMAIN pendingDB :
         /\ Unmarshals(pendingDB[k])
         /\ pendingDB' = [pendingDB EXCEPT ![k] = Corrupted(@)]
    /\ snap' = NoSnap
    /\ UNCHANGED <<committedDB, evidenceList, evidenceSize, state,
                   pruningHeight, pruningTime, task>>
    /\ UNCHANGED <<reactorVars, txVars>>

\* ------------------------------------------- the vote list (lib/clist)
\* The elements are numbered in the order of their PushBack; 0 is nil. A
\* removed element keeps its next pointer, so that a cursor standing on it
\* can still advance; the removed tail's next is nil.
NoVotes == [i \in {} |-> 0]
VoteLive == { i \in DOMAIN voteList : ~voteList[i].removed }
Highest(S) == CHOOSE i \in S : \A j \in S : j <= i
Lowest(S) == CHOOSE i \in S : \A j \in S : i <= j

\* vpool.VoteFront(): the front element, nil for the empty list
VoteFront == IF VoteLive = {} THEN 0 ELSE Lowest(VoteLive)
\* vpool.VoteWaitChan() is closed while the list holds an element
VoteWaitChan == VoteLive # {}
\* e.NextWaitChan() is closed once e has a next element or is removed
NextWaitChan(e) == voteList[e].removed \/ voteList[e].next # 0
\* e.Next()
CElementNext(e) == voteList[e].next

\* the vote pool appends a vote
PushVote ==
    /\ Len(voteList) < MaxVotes
    /\ LET e == Len(voteList) + 1
       IN  voteList' =
             [i \in 1 .. e |->
                IF i = e THEN [removed |-> FALSE, next |-> 0]
                ELSE IF VoteLive # {} /\ i = Highest(VoteLive)
                     THEN [voteList[i] EXCEPT !.next = e]
                     ELSE voteList[i]]
    /\ UNCHANGED <<running, bcast, runloop, evidenceVars, txVars>>

\* the vote pool removes the element e
RemoveVote(e) ==
    /\ e \in VoteLive
    /\ voteList' =
         [i \in DOMAIN voteList |->
            IF i = e THEN [voteList[i] EXCEPT !.removed = TRUE]
            ELSE IF i \in VoteLive /\ voteList[i].next = e
                 THEN [voteList[i] EXCEPT !.next = voteList[e].next]
                 ELSE voteList[i]]
    /\ UNCHANGED <<running, bcast, runloop, evidenceVars, txVars>>

\* ------------------------------------------------ broadcastVoteRoutine
BcastStart ==
    [pc |-> "top", next |-> 0, sent |-> {}, retrying |-> FALSE,
     retried |-> FALSE, exit |-> "none"]

Quit == ~running.peer \/ ~running.reactor

BcastReturn(r, exit) == [r EXCEPT !.pc = "returned", !.exit = exit]

\* the head of the loop taking the cursor's vote without asking whether the
\* peer and the reactor run
LoopTopUnchecked(r, quit) == [r EXCEPT !.pc = "send"]
\* the head of the loop with a cursor: else if !peer.IsRunning() ||
\* !r.IsRunning() { return }
LoopTop(r, quit) ==
    IF quit
    THEN BcastReturn(r, IF r.retrying THEN "retry" ELSE "advance")
    ELSE [r EXCEPT !.pc = "send"]

\* a failed Send taken for a delivery
SendFailedSkips(r) == [r EXCEPT !.pc = "wait", !.retried = TRUE]
\* if !success { time.Sleep(peerRetryMessageIntervalMS); continue }
SendFailed(r) == [r EXCEPT !.pc = "sleep", !.retried = TRUE]

\* next == nil: the select takes <-r.vpool.VoteWaitChan()
WaitFirst ==
    /\ bcast.pc = "top"
    /\ bcast.next = 0
    /\ VoteWaitChan
    /\ bcast' = [bcast EXCEPT !.pc = "front"]
    /\ UNCHANGED <<voteList, running, runloop, evidenceVars, txVars>>

\* if next = r.vpool.VoteFront(); next == nil { continue }
TakeFront ==
    /\ bcast.pc = "front"
    /\ bcast' = [bcast EXCEPT !.next = VoteFront, !.retrying = FALSE,
                              !.pc = IF VoteFront = 0 THEN "top" ELSE "send"]
    /\ UNCHANGED <<voteList, running, runloop, evidenceVars, txVars>>

\* a select takes <-peer.Quit() or <-r.Quit(): return
QuitSelected ==
    /\ \/ bcast.pc = "top" /\ bcast.next = 0
       \/ bcast.pc = "wait"
    /\ Quit
    /\ bcast' = BcastReturn(bcast, IF bcast.pc = "top" THEN "first" ELSE "wait")
    /\ UNCHANGED <<voteList, running, runloop, evidenceVars, txVars>>

\* next != nil at the head of the loop
CheckRunning ==
    /\ bcast.pc = "top"
    /\ bcast.next # 0
    /\ bcast' = LoopTop(bcast, Quit)
    /\ UNCHANGED <<voteList, running, runloop, evidenceVars, txVars>>

\* peer.Send(DualChannel, voteBytes) returns true
SendOk ==
    /\ bcast.pc = "send"
    /\ running.peer
    /\ bcast' = [bcast EXCEPT !.pc = "wait", !.sent = @ \cup {bcast.next},
                              !.retrying = FALSE]
    /\ UNCHANGED <<voteList, running, runloop, evidenceVars, txVars>>

\* peer.Send(DualChannel, voteBytes) returns false
SendFail ==
    /\ bcast.pc = "send"
    /\ bcast' = SendFailed(bcast)
    /\ UNCHANGED <<voteList, running, runloop, evidenceVars, txVars>>

\* time.Sleep has passed: continue, with the same cursor
Retry ==
    /\ bcast.pc = "sleep"
    /\ bcast' = [bcast EXCEPT !.pc = "top", !.retrying = TRUE]
    /\ UNCHANGED <<voteList, running, runloop, evidenceVars, txVars>>

\* the select takes <-afterCh: next = nil
Tick ==
    /\ bcast.pc = "wait"
    /\ bcast' = [bcast EXCEPT !.pc = "top", !.next = 0]
    /\ UNCHANGED <<voteList, running, runloop, evidenceVars, txVars>>

\* the select takes <-next.NextWaitChan(): next = next.Next()
Advance ==
    /\ bcast.pc = "wait"
    /\ NextWaitChan(bcast.next)
    /\ bcast' = [bcast EXCEPT !.pc = "top", !.next = CElementNext(bcast.next)]
    /\ UNCHANGED <<voteList, running, runloop, evidenceVars, txVars>>

\* the peer stops (RemovePeer, a connection error)
StopPeer ==
    /\ running.peer
    /\ running' = [running EXCEPT !.peer = FALSE]
    /\ UNCHANGED <<voteList, bcast, runloop, evidenceVars, txVars>>

\* the reactor stops
StopReactor ==
    /\ running.reactor
    /\ running' = [running EXCEPT !.reactor = FALSE]
    /\ UNCHANGED <<voteList, bcast, runloop, evidenceVars, txVars>>

\* OnStart: run() at its select; no sender waits on depositC or valSetC, and
\* nothing was handled
RunStart ==
    [pc |-> "select", ret |-> "none",
     depositC |-> 0, valSetC |-> 0, deposits |-> 0, valSets |-> 0]

\* a producer offers a deposit on r.depositC and waits for run to take it
SendDeposit ==
    /\ running.reactor
    /\ runloop.depositC + runloop.deposits < MaxEvents
    /\ runloop' = [runloop EXCEPT !.depositC = @ + 1]
    /\ UNCHANGED <<voteList, running, bcast, evidenceVars, txVars>>

\* a producer offers a validator set on r.valSetC
SendValSet ==
    /\ running.reactor
    /\ runloop.valSetC + runloop.valSets < MaxEvents
    /\ runloop' = [runloop EXCEPT !.valSetC = @ + 1]
    /\ UNCHANGED <<voteList, running, bcast, evidenceVars, txVars>>

\* run: case depositRecord := <-r.depositC: return r.handleDeposit(...)
RunDeposit ==
    /\ runloop.pc = "select"
    /\ runloop.depositC > 0
    /\ runloop' = [runloop EXCEPT !.depositC = @ - 1, !.deposits = @ + 1,
                                  !.pc = "returned", !.ret = "handleDeposit"]
    /\ UNCHANGED <<voteList, running, bcast, evidenceVars, txVars>>

\* run: case valSet := <-r.valSetC: return r.handleUpdateValSet(valSet)
RunValSet ==
    /\ runloop.pc = "select"
    /\ runloop.valSetC > 0
    /\ runloop' = [runloop EXCEPT !.valSetC = @ - 1, !.valSets = @ + 1,
                                  !.pc = "returned",
                                  !.ret = "handleUpdateValSet"]
    /\ UNCHANGED <<voteList, running, bcast, evidenceVars, txVars>>

\* run: case <-cleanup.C: return r.handleCleanup()
RunCleanup ==
    /\ runloop.pc = "select"
    /\ runloop' = [runloop EXCEPT !.pc = "returned", !.ret = "handleCleanup"]
    /\ UNCHANGED <<voteList, running, bcast, evidenceVars, txVars>>

\* run: case <-r.Quit(): return nil
RunQuit ==
    /\ runloop.pc = "select"
    /\ ~running.reactor
    /\ runloop' = [runloop EXCEPT !.pc = "returned", !.ret = "quit"]
    /\ UNCHANGED <<voteList, running, bcast, evidenceVars, txVars>>

ReactorInit ==
    /\ voteList = NoVotes
    /\ running = [peer |-> TRUE, reactor |-> TRUE]
    /\ bcast = BcastStart
    /\ runloop = RunStart

\* ------------------------------------------------------ transaction pool
\* a transaction is its sender and its nonce, which make its hash
Txs == [sender : TxSenders, nonce : 1 .. MaxNonce]
TxHash(tx) == <<tx.sender, tx.nonce>>

\* sort.Sort(types.TxByNonce(txs))
RECURSIVE TxByNonce(_)
TxByNonce(txs) ==
    IF txs = <<>> THEN <<>>
    ELSE LET i == CHOOSE j \in DOMAIN txs :
                    \A k \in DOMAIN txs :
                      \/ txs[j].nonce < txs[k].nonce
                      \/ txs[j].nonce = txs[k].nonce /\ j <= k
         IN  <<txs[i]>> \o TxByNonce(SubSeq(txs, 1, i - 1)
                                       \o SubSeq(txs, i + 1, Len(txs)))

\* common.Set as the queue of senders: Has, Add at the back, Remove
QueueHas(q, a) == \E i \in DOMAIN q : q[i] = a
QueueAdd(q, a) == Append(q, a)
QueueRemove(q, a) == SelectSeq(q, LAMBDA x : x # a)

\* ValidateTx: the sender's slots, the nonce against addressState, and the
\* hash against the processed transactions
ValidateTx(p, tx) ==
    /\ ~(Len(p.pending[tx.sender]) >= GlobalSlots)
    /\ ~(tx.nonce <= p.addressState[tx.sender] /\ p.addressState[tx.sender] > 0)
    /\ TxHash(tx) \notin p.all

\* addTx on the pool p, the transaction valid
addTx(p, tx) ==
    [p EXCEPT
       !.addressState[tx.sender] = IF @ < tx.nonce THEN tx.nonce ELSE @,
       !.pending[tx.sender] = TxByNonce(Append(@, tx)),
       !.promotableQueue = IF QueueHas(@, tx.sender) THEN @
                           ELSE QueueAdd(@, tx.sender),
       !.pendingSize = @ + 1]

\* Pending over the senders of promotableQueue.List(): the loop stops at a
\* sender once limit transactions are gathered, and takes every
\* transaction of a sender it has begun, but the processed ones
RECURSIVE PendingFrom(_, _, _, _, _)
PendingFrom(p, queue, pending, limit, removeResult) ==
    IF queue = <<>> \/ Len(pending) >= limit
    THEN [pool |-> p, out |-> pending]
    ELSE LET addr == Head(queue)
             txs == p.pending[addr]
             new == SelectSeq(txs, LAMBDA tx : TxHash(tx) \notin p.all)
             q == IF txs = <<>> THEN p
                  ELSE IF removeResult
                  THEN [p EXCEPT
                          !.addressState[addr] = txs[Len(txs)].nonce,
                          !.pending[addr] = <<>>,
                          !.pendingSize = @ - Len(txs),
                          !.promotableQueue = QueueRemove(@, addr)]
                  ELSE [p EXCEPT !.addressState[addr] = txs[Len(txs)].nonce]
         IN  PendingFrom(q, Tail(queue), pending \o new, limit, removeResult)

\* RemoveTxs leaving the counter as it was
RemoveTxsUncounted(p, tx) ==
    [p EXCEPT !.pending[tx.sender] =
                SelectSeq(@, LAMBDA x : x.nonce # tx.nonce)]

\* RemoveTxs of the one transaction tx: the sender's pending transactions of
\* that nonce go
RemoveTxs(p, tx) ==
    LET pendings == p.pending[tx.sender]
        newTxs == SelectSeq(pendings, LAMBDA x : x.nonce # tx.nonce)
    IN  [p EXCEPT !.pending[tx.sender] = newTxs,
                  !.pendingSize = @ - (Len(pendings) - Len(newTxs))]

\* what the last call of the pool returned
NoCall == [op |-> "none", limit |-> 0, out |-> <<>>]

\* AddTx(tx): an invalid transaction is refused
AddTx(tx) ==
    /\ ValidateTx(txpool, tx)
    /\ txpool' = [addTx(txpool, tx) EXCEPT !.call = NoCall]
    /\ UNCHANGED <<txlife, evidenceVars, reactorVars>>

\* Pending(limit, removeResult), under pool.mu
Pending(limit, removeResult) ==
    /\ txlife.mu = "free"
    /\ LET r == PendingFrom(txpool, txpool.promotableQueue, <<>>, limit,
                            removeResult)
       IN  txpool' = [r.pool EXCEPT !.call = [op |-> "Pending", limit |-> limit,
                                              out |-> r.out]]
    /\ UNCHANGED <<txlife, evidenceVars, reactorVars>>

\* loop: case ev := <-pool.chainHeadCh, whose reset removes the block's
\* transaction from pending and saves its hash among the processed
ChainHead(tx) ==
    /\ txlife.loop = "select"
    /\ txlife.subscribed
    /\ txlife.mu = "free"
    /\ txpool' = [RemoveTxs(txpool, tx) EXCEPT !.all = @ \cup {TxHash(tx)},
                                               !.call = NoCall]
    /\ UNCHANGED <<txlife, evidenceVars, reactorVars>>

\* loop: case <-pool.chainHeadSub.Err(): return
LoopUnsubscribed ==
    /\ txlife.loop = "select"
    /\ ~txlife.subscribed
    /\ txlife' = [txlife EXCEPT !.loop = "returned"]
    /\ UNCHANGED <<txpool, evidenceVars, reactorVars>>

\* Stop: pool.scope.Close()
Stop ==
    /\ txlife.stop = "none"
    /\ txlife' = [txlife EXCEPT !.stop = "unsubscribe"]
    /\ UNCHANGED <<txpool, evidenceVars, reactorVars>>

\* Stop: pool.chainHeadSub.Unsubscribe(), which closes Err()
StopUnsubscribe ==
    /\ txlife.stop = "unsubscribe"
    /\ txlife' = [txlife EXCEPT !.stop = "wait", !.subscribed = FALSE]
    /\ UNCHANGED <<txpool, evidenceVars, reactorVars>>

\* Stop: pool.wg.Wait() returns when the counter is zero, and blocks while
\* it is not
StopWait ==
    /\ txlife.stop = "wait"
    /\ txlife' = IF txlife.wg = 0
                 THEN [txlife EXCEPT !.stop = "returned"]
                 ELSE txlife
    /\ UNCHANGED <<txpool, evidenceVars, reactorVars>>

\* ClearPending: a new pending map and the counter at zero, the lock not
\* taken
ClearPending ==
    /\ txpool' = [txpool EXCEPT !.pending = [a \in TxSenders |-> <<>>],
                                !.pendingSize = 0,
                                !.call = NoCall]
    /\ UNCHANGED <<txlife, evidenceVars, reactorVars>>

\* lockedReset: pool.mu.Lock()
LockedReset ==
    /\ txlife.reset = "none"
    /\ txlife.mu = "free"
    /\ txlife' = [txlife EXCEPT !.mu = "lockedReset", !.reset = "reset"]
    /\ UNCHANGED <<txpool, evidenceVars, reactorVars>>

\* reset, up to pool.chain.StateAt: on its error reset returns
ResetStateAt ==
    /\ txlife.reset = "reset"
    /\ \E ok \in BOOLEAN :
         txlife' = [txlife EXCEPT !.reset = IF ok THEN "RemoveTxs" ELSE "unlock"]
    /\ UNCHANGED <<txpool, evidenceVars, reactorVars>>

\* reset: pool.RemoveTxs(currentBlock.Transactions()), whose first statement
\* is pool.mu.Lock(): it blocks while the lock is held, by whomever
ResetRemoveTxs ==
    /\ txlife.reset = "RemoveTxs"
    /\ IF txlife.mu = "free"
       THEN /\ \E tx \in Txs :
                 txpool' = [RemoveTxs(txpool, tx) EXCEPT !.call = NoCall]
            /\ txlife' = [txlife EXCEPT !.reset = "unlock"]
       ELSE UNCHANGED <<txpool, txlife>>
    /\ UNCHANGED <<evidenceVars, reactorVars>>

\* lockedReset: the deferred pool.mu.Unlock(), and the return
LockedResetReturn ==
    /\ txlife.reset = "unlock"
    /\ txlife' = [txlife EXCEPT !.mu = "free", !.reset = "returned"]
    /\ UNCHANGED <<txpool, evidenceVars, reactorVars>>

\* NewTxPool: the empty pool, the subscription, pool.wg.Add(1), go pool.loop()
TxPoolInit ==
    /\ txpool = [pending |-> [a \in TxSenders |-> <<>>],
                 promotableQueue |-> <<>>,
                 all |-> {},
                 addressState |-> [a \in TxSenders |-> 0],
                 pendingSize |-> 0,
                 call |-> NoCall]
    /\ txlife = [loop |-> "select", subscribed |-> TRUE, wg |-> 1,
                 stop |-> "none", mu |-> "free", reset |-> "none"]

\* ------------------------------------------------------------------- Init
Init ==
    /\ ReactorInit
    /\ TxPoolInit
    /\ state \in ChainStates
    /\ committedDB = EmptyDB
    /\ LET p == NewPool(state, EmptyDB, {})
       IN  /\ pendingDB = p.pendingDB
           /\ evidenceList = p.evidenceList
           /\ evidenceSize = p.evidenceSize
           /\ pruningHeight = p.pruningHeight
           /\ pruningTime = p.pruningTime
    /\ task = [t \in Tasks |-> Idle]
    /\ snap = NoSnap

\* the steps of a task that serves a peer: it submits what the peer sent
PeerNext(t, E) ==
    \/ \E e \in E : AddEvidence(t, e)
    \/ AddEvidenceIsCommitted(t)
    \/ AddEvidenceVerify(t)
    \/ addPendingPut(t)
    \/ addPendingInc(t)
    \/ addPushBack(t)

\* the steps of the consensus task: every operation of the pool
DriverNext(t, E) ==
    \/ PeerNext(t, E)
    \/ \E e \in E : AddEvidenceFromConsensus(t, e)
    \/ \E l \in ListsUpTo(E, MaxList) : CheckEvidence(t, l)
    \/ \E maxBytes \in ByteCaps : PendingEvidenceSize(t, maxBytes)
    \/ PendingEvidenceList(t)
    \/ CheckEvidenceFast(t)
    \/ CheckEvidenceIsCommitted(t)
    \/ CheckEvidenceVerify(t)
    \/ \E st \in ChainStates, l \in ListsUpTo(E, MaxCommitted) : Update(t, st, l)
    \/ updateState(t)
    \/ markIsPending(t)
    \/ removePendingDelete(t)
    \/ removePendingDec(t)
    \/ markPut(t)
    \/ markRemoveFromList(t)
    \/ updatePruneCheck(t)
    \/ pruneIterator(t)
    \/ pruneNext(t)
    \/ pruneRemoveFromList(t)

\* one call at a time, made by task 1
Next == DriverNext(1, Evidence) \/ Return(1) \/ Restart
Spec == Init /\ [][Next]_vars

\* the calls of the consensus task (task 1) and of the tasks serving peers
\* overlap
ConcNext ==
    \/ DriverNext(1, 1 .. ConcEvidence)
    \/ \E t \in Tasks \ {1} : PeerNext(t, 1 .. ConcEvidence)
    \/ \E t \in Tasks : Return(t)
    \/ Restart
ConcSpec == Init /\ [][ConcNext]_vars

\* every task submits one item to a pool opened on an empty store, and the
\* calls overlap
AddNext == \E t \in Tasks : PeerNext(t, Evidence)
AddSpec == Init /\ [][AddNext]_vars

\* one call at a time, on evidence of which one item carries a time older
\* than its height's
SkewNext ==
    \/ DriverNext(1, { NumEvidence } \cup Backdated)
    \/ Return(1)
    \/ Restart
SkewSpec == Init /\ [][SkewNext]_vars

\* the consensus task adds evidence of three heights in any order, commits
\* it item by item, and the node restarts
GossipNext ==
    \/ \E e \in (Evidence \cup Backdated) : AddEvidenceFromConsensus(1, e)
    \/ addPendingPut(1)
    \/ addPendingInc(1)
    \/ addPushBack(1)
    \/ \E st \in ChainStates, l \in ListsUpTo(Evidence \cup Backdated, MaxCommitted) :
         Update(1, st, l)
    \/ updateState(1)
    \/ markIsPending(1)
    \/ removePendingDelete(1)
    \/ removePendingDec(1)
    \/ markPut(1)
    \/ markRemoveFromList(1)
    \/ updatePruneCheck(1)
    \/ pruneIterator(1)
    \/ pruneNext(1)
    \/ pruneRemoveFromList(1)
    \/ Return(1)
    \/ Restart
\* the pool is opened late in the chain's life
GossipInit ==
    /\ Init
    /\ state.LastBlockHeight = MaxHeight - 1
    /\ state.MaxAgeNumBlocks = 0
GossipSpec == GossipInit /\ [][GossipNext]_vars

\* the consensus task fills the pool with evidence of many heights, at most
\* MaxKeys records, and lists it
KeyNext ==
    \/ /\ Cardinality(DOMAIN pendingDB) < MaxKeys
       /\ \E e \in KeyEvidence : AddEvidenceFromConsensus(1, e)
    \/ addPendingPut(1)
    \/ addPendingInc(1)
    \/ addPushBack(1)
    \/ PendingEvidenceSize(1, -1)
    \/ PendingEvidenceList(1)
    \/ Return(1)
KeySpec == Init /\ [][KeyNext]_vars

\* the consensus task adds, lists and commits on a store whose records the
\* medium may damage
CorruptNext ==
    \/ \E e \in Evidence : AddEvidenceFromConsensus(1, e)
    \/ addPendingPut(1)
    \/ addPendingInc(1)
    \/ addPushBack(1)
    \/ PendingEvidenceSize(1, -1)
    \/ PendingEvidenceList(1)
    \/ \E st \in ChainStates : Update(1, st, <<>>)
    \/ updateState(1)
    \/ updatePruneCheck(1)
    \/ pruneIterator(1)
    \/ pruneNext(1)
    \/ removePendingDelete(1)
    \/ removePendingDec(1)
    \/ pruneRemoveFromList(1)
    \/ Return(1)
    \/ Restart
    \/ Damage
CorruptSpec == Init /\ [][CorruptNext]_vars

\* one call at a time, made by task 1, of every operation of the pool, with
\* blocks that carry up to MaxList items of evidence, pending or not
CommitNext ==
    \/ DriverNext(1, Evidence)
    \/ \E st \in ChainStates, l \in ListsUpTo(Evidence, MaxList) : Update(1, st, l)
    \/ Return(1)
CommitSpec == Init /\ [][CommitNext]_vars

\* the broadcast routine of one peer, the vote pool that fills and empties
\* the list, and the stops of the peer and of the reactor
RoutineNext ==
    \/ WaitFirst
    \/ TakeFront
    \/ QuitSelected
    \/ CheckRunning
    \/ SendOk
    \/ SendFail
    \/ Retry
    \/ Tick
    \/ Advance
BcastNext ==
    \/ RoutineNext
    \/ PushVote
    \/ \E e \in 1 .. MaxVotes : RemoveVote(e)
    \/ StopPeer
    \/ StopReactor
\* the transaction pool: transactions arrive, the proposer collects them,
\* blocks are committed, and the node stops the pool
TxLoopNext ==
    \/ \E tx \in Txs : ChainHead(tx)
    \/ LoopUnsubscribed
TxStopNext ==
    \/ Stop
    \/ StopUnsubscribe
    \/ StopWait
TxNext ==
    \/ \E tx \in Txs : AddTx(tx)
    \/ \E limit \in 0 .. MaxLimit, removeResult \in BOOLEAN :
         Pending(limit, removeResult)
    \/ TxLoopNext
    \/ TxStopNext
\* the tester calls lockedReset while transactions arrive and blocks are
\* proposed
LockedResetNext ==
    \/ LockedReset
    \/ ResetStateAt
    \/ ResetRemoveTxs
    \/ LockedResetReturn
ResetNext ==
    \/ \E tx \in Txs : AddTx(tx)
    \/ \E limit \in 0 .. MaxLimit, removeResult \in BOOLEAN :
         Pending(limit, removeResult)
    \/ \E tx \in Txs : ChainHead(tx)
    \/ ClearPending
    \/ LockedResetNext
\* the transaction pool of a node whose evidence pool, left alone here, was
\* opened at the first height
TxInit ==
    /\ Init
    /\ state.LastBlockHeight = 1
    /\ state.MaxAgeNumBlocks = 0
\* the event loop is a goroutine of its own and takes a step when it can;
\* the caller of Stop goes on when it can
TxSpec ==
    /\ TxInit
    /\ [][TxNext]_vars
    /\ WF_vars(LoopUnsubscribed)
    /\ WF_vars(TxStopNext)

\* the caller of lockedReset goes on when it can
ResetSpec == TxInit /\ [][ResetNext]_vars /\ WF_vars(LockedResetNext)

\* the reactor's run loop, the producers of deposits and validator sets, and
\* the stops of the reactor and of a peer
RunLoopNext ==
    \/ RunDeposit
    \/ RunValSet
    \/ RunCleanup
    \/ RunQuit
RunNext ==
    \/ SendDeposit
    \/ SendValSet
    \/ RunLoopNext
    \/ StopReactor
    \/ StopPeer
\* run is the goroutine of OnStart and takes a step when it can
RunSpec == TxInit /\ [][RunNext]_vars /\ WF_vars(RunLoopNext)

\* the reactor of a node whose evidence pool, left alone here, was opened at
\* the first height
BcastInit ==
    /\ Init
    /\ state.LastBlockHeight = 1
    /\ state.MaxAgeNumBlocks = 0

\* the routine is a goroutine of its own: it takes a step when it can; a
\* select with several ready cases takes each of them in turn (Go chooses
\* among them at random, and the rebroadcast timer needs 10 s where a closed
\* NextWaitChan is ready at once), wherever the cursor stands; and the peer
\* accepts a send again and again
BcastSpec ==
    /\ BcastInit
    /\ [][BcastNext]_vars
    /\ WF_vars(RoutineNext)
    /\ SF_vars(QuitSelected)
    /\ \A e \in 1 .. MaxVotes : SF_vars(Advance /\ bcast.next = e)
    /\ SF_vars(SendOk)

\* ================================================================== claims
Quiescent == \A t \in Tasks : ~Running(t)
InvalidEvidenceErrors ==
    {"ErrInvalidEvidence:verify", "ErrInvalidEvidence:committed",
     "ErrInvalidEvidence:duplicate"}
PendingEvidenceSet == { pendingDB[k] : k \in DOMAIN pendingDB }
ListSet(l) == { l[i] : i \in DOMAIN l }

\* the task whose call is the only one since the pool was remembered in snap
Finished(t, op) ==
    /\ Cur(t).pc = "done"
    /\ Cur(t).op = op
    /\ "pendingDB" \in DOMAIN snap

\* C1: no evidence hash has both a pending record and a committed marker in
\* the durable store, in any state the pool's operations reach.
C1_PendingAndCommittedDisjoint ==
    \A e \in Evidence : ~(isPending(e) /\ isCommitted(e))

\* C2: whenever no pool operation is in progress, Size() equals the number
\* of keys under the pending prefix, for every interleaving of the calls.
C2_SizeEqualsPendingKeys ==
    Quiescent => Size = Cardinality(DOMAIN pendingDB)

\* C3: whenever no pool operation is in progress, every element of the
\* gossip list has a record under the pending prefix, for every interleaving
\* of the calls.
C3_ListWithinPending ==
    Quiescent => \A i \in DOMAIN evidenceList : isPending(evidenceList[i])

\* C4: whenever no pool operation is in progress, every record under the
\* pending prefix has an element in the gossip list.
C4_PendingWithinList ==
    Quiescent => PendingEvidenceSet \subseteq ListSet(evidenceList)

\* C5: no step of an Update lowers the pruning watermark: neither
\* pruningHeight nor pruningTime is smaller after the step than before it
\* (a restart builds a new pool, with a watermark of its own).
C5_WatermarkNeverDecreases ==
    [][Restart \/ (pruningHeight' >= pruningHeight /\ pruningTime' >= pruningTime)]_vars

\* C6: AddEvidence on valid evidence the pool does not hold returns nil and
\* adds exactly one pending record, one list element and one to Size() (the
\* store taking the write), after which the evidence is pending; AddEvidence
\* on pending evidence, as the second of two calls in sequence is, returns
\* nil and changes nothing.
C6_AddEvidenceIdempotent ==
    \A t \in Tasks :
      Finished(t, "AddEvidence") =>
        LET e == Cur(t).ev
            k == keyPending(e)
        IN  /\ ( /\ ~Has(snap.pendingDB, k)
                 /\ ~Has(snap.committedDB, keyCommitted(e))
                 /\ verifyAt(snap.state, e)
                 /\ Cur(t).ret # "error:persist" )
               => /\ Cur(t).ret = "nil"
                  /\ pendingDB = Put(snap.pendingDB, k, e)
                  /\ evidenceList = Append(snap.evidenceList, e)
                  /\ Size = snap.evidenceSize + 1
                  /\ isPending(e)
            /\ Has(snap.pendingDB, k)
               => /\ Cur(t).ret = "nil"
                  /\ Pool = snap

\* C6 witness: a second AddEvidence of evidence that is pending and in the
\* gossip list has returned.
C6_Witness ==
    \E t \in Tasks :
      /\ Finished(t, "AddEvidence")
      /\ Has(snap.pendingDB, keyPending(Cur(t).ev))
      /\ Cur(t).ev \in ListSet(snap.evidenceList)
      /\ snap.evidenceSize = 1

\* C7: when every task has added one item to an initially empty pool, the
\* items pairwise distinct and every call returning nil, Size() is the
\* number of tasks and PendingEvidence(-1) holds each item exactly once.
C7_ConcurrentAddsCounted ==
    ( /\ \A t \in Tasks : Cur(t).pc = "done" /\ Cur(t).ret = "nil"
      /\ \A t, u \in Tasks : t # u => Cur(t).ev # Cur(u).ev )
    => /\ Size = NumTasks
       /\ LET out == PendingEvidence(-1).evidence
          IN  /\ Len(out) = NumTasks
              /\ \A t \in Tasks :
                   Cardinality({ i \in DOMAIN out : out[i] = Cur(t).ev }) = 1

\* C7 witness: all the overlapping calls have returned nil, on distinct items.
C7_Witness ==
    /\ \A t \in Tasks : Cur(t).pc = "done" /\ Cur(t).ret = "nil"
    /\ \A t, u \in Tasks : t # u => Cur(t).ev # Cur(u).ev

\* C8: AddEvidence on evidence that has a committed marker returns nil
\* without calling verify and leaves Size(), the pending namespace, the
\* committed namespace and the gossip list as they were.
C8_AddCommittedIsNoOp ==
    \A t \in Tasks :
      ( /\ Finished(t, "AddEvidence")
        /\ Has(snap.committedDB, keyCommitted(Cur(t).ev)) )
      => /\ Cur(t).ret = "nil"
         /\ Cur(t).verified = {}
         /\ Pool = snap

\* C8 witness: AddEvidence has returned on evidence that is committed and
\* not pending.
C8_Witness ==
    \E t \in Tasks :
      /\ Finished(t, "AddEvidence")
      /\ Has(snap.committedDB, keyCommitted(Cur(t).ev))
      /\ ~Has(snap.pendingDB, keyPending(Cur(t).ev))

\* C9: CheckEvidence on a list that contains an item with a committed marker
\* returns an ErrInvalidEvidence.
C9_CheckCommittedIsInvalid ==
    \A t \in Tasks :
      ( /\ Finished(t, "CheckEvidence")
        /\ \E i \in DOMAIN Cur(t).evs :
             Has(snap.committedDB, keyCommitted(Cur(t).evs[i])) )
      => Cur(t).ret \in InvalidEvidenceErrors

\* what AddEvidence(e) returns and leaves, called alone on the pool p, the
\* store taking the write (ok) or failing it
AddEvidenceOutcome(p, e, ok) ==
    IF Has(p.pendingDB, keyPending(e)) \/ Has(p.committedDB, keyCommitted(e))
    THEN [ret |-> "nil", pool |-> p]
    ELSE IF ~verifyAt(p.state, e)
    THEN [ret |-> "ErrInvalidEvidence:verify", pool |-> p]
    ELSE IF ~ok
    THEN [ret |-> "error:persist", pool |-> p]
    ELSE [ret |-> "nil",
          pool |-> [p EXCEPT !.pendingDB = Put(@, keyPending(e), e),
                             !.evidenceList = PushBack(@, e),
                             !.evidenceSize = AddUint32(@, 1)]]

\* AddEvidenceOutcome is what the steps of AddEvidence add up to
AddEvidenceOutcomeAgrees ==
    \A t \in Tasks :
      Finished(t, "AddEvidence") =>
        \E ok \in BOOLEAN :
          AddEvidenceOutcome(snap, Cur(t).ev, ok) =
            [ret |-> Cur(t).ret, pool |-> Pool]

\* C10: on evidence that passes verification, AddEvidenceFromConsensus
\* returns what AddEvidence returns and leaves the pending namespace, the
\* committed namespace, the gossip list and Size() as AddEvidence leaves
\* them, the store behaving alike.
C10_FromConsensusAsAddEvidence ==
    \A t \in Tasks :
      ( /\ Finished(t, "AddEvidenceFromConsensus")
        /\ verifyAt(snap.state, Cur(t).ev) )
      => \E ok \in BOOLEAN :
           AddEvidenceOutcome(snap, Cur(t).ev, ok) =
             [ret |-> Cur(t).ret, pool |-> Pool]

\* the list holds the same evidence hash at two positions
HasDuplicate(l) ==
    \E i, j \in DOMAIN l : i < j /\ Hash(l[i]) = Hash(l[j])

\* C11: CheckEvidence on a list that holds the same evidence hash twice
\* returns the ErrInvalidEvidence whose reason is "duplicate evidence",
\* whatever the pool holds and whether or not the item passes verify.
C11_DuplicateBatchIsDuplicateError ==
    \A t \in Tasks :
      ( Finished(t, "CheckEvidence") /\ HasDuplicate(Cur(t).evs) )
      => Cur(t).ret = "ErrInvalidEvidence:duplicate"

\* CheckEvidence called alone on the pool p accepts the item e: it is pending,
\* or it is not committed and passes verify
Accepts(p, e) ==
    \/ Has(p.pendingDB, keyPending(e))
    \/ ~Has(p.committedDB, keyCommitted(e)) /\ verifyAt(p.state, e)

\* C12: CheckEvidence takes the items in order. It calls verify on no item
\* that is pending; an item neither pending nor committed that fails verify,
\* the items before it accepted, makes the call return the ErrInvalidEvidence
\* carrying that item, no later item verified or written; an item that passed
\* verify is pending afterwards (the store taking the write); and the call
\* writes no committed marker and nothing but pending records.
C12_CheckEvidenceInOrder ==
    \A t \in Tasks :
      Finished(t, "CheckEvidence") =>
        LET r == Cur(t)
            l == r.evs
            new == DOMAIN pendingDB \ DOMAIN snap.pendingDB
        IN  /\ committedDB = snap.committedDB
            /\ evidenceList = snap.evidenceList
            /\ state = snap.state
            /\ DOMAIN snap.pendingDB \subseteq DOMAIN pendingDB
            /\ \A e \in r.verified : ~Has(snap.pendingDB, keyPending(e))
            /\ new \subseteq { keyPending(e) : e \in r.verified }
            /\ \A e \in r.verified :
                 (verifyAt(snap.state, e) /\ e \notin r.failed) => isPending(e)
            /\ r.ret = "ErrInvalidEvidence:verify" =>
                 \E i \in DOMAIN l :
                   /\ r.rev = l[i]
                   /\ ~verifyAt(snap.state, l[i])
                   /\ r.verified \subseteq { l[j] : j \in 1 .. i }
                   /\ new \subseteq { keyPending(l[j]) : j \in 1 .. i - 1 }
            /\ \A i \in DOMAIN l :
                 ( /\ \A j \in 1 .. i - 1 : Accepts(snap, l[j])
                   /\ ~HasDuplicate(SubSeq(l, 1, i - 1))
                   /\ ~Has(snap.pendingDB, keyPending(l[i]))
                   /\ ~Has(snap.committedDB, keyCommitted(l[i]))
                   /\ ~verifyAt(snap.state, l[i]) )
                 => r.ret = "ErrInvalidEvidence:verify" /\ r.rev = l[i]

\* C12 witness: CheckEvidence has returned on a list whose first item failed
\* verify and whose second item, not pending, would have passed it.
C12_Witness ==
    \E t \in Tasks :
      /\ Finished(t, "CheckEvidence")
      /\ Len(Cur(t).evs) = 2
      /\ Cur(t).ret = "ErrInvalidEvidence:verify"
      /\ Cur(t).rev = Cur(t).evs[1]
      /\ ~Has(snap.pendingDB, keyPending(Cur(t).evs[2]))
      /\ Accepts(snap, Cur(t).evs[2])
      /\ ~isPending(Cur(t).evs[2])

\* the serialized size of a list of evidence
RECURSIVE SumBytes(_)
SumBytes(l) == IF l = <<>> THEN 0 ELSE EvBytes(Head(l)) + SumBytes(Tail(l))

\* the longest prefix of l whose serialized size is at most cap
LongestPrefix(l, cap) ==
    LET fits == { k \in 0 .. Len(l) : SumBytes(SubSeq(l, 1, k)) <= cap }
        n == CHOOSE k \in fits : \A j \in fits : j <= k
    IN  SubSeq(l, 1, n)

\* C13: for maxBytes >= 0, PendingEvidence(maxBytes) returns a list whose
\* serialized size, which is the size it returns, is at most maxBytes, and the
\* list is the longest prefix of PendingEvidence(-1) within maxBytes.
C13_PendingEvidenceWithinMaxBytes ==
    \A t \in Tasks :
      ( Finished(t, "PendingEvidence") /\ Cur(t).maxBytes >= 0 )
      => /\ Cur(t).size <= Cur(t).maxBytes
         /\ Cur(t).size = SumBytes(Cur(t).out)
         /\ Cur(t).out = LongestPrefix(PendingEvidence(-1).evidence,
                                        Cur(t).maxBytes)

\* C13 witness: PendingEvidence has returned the first of two pending
\* records, the cap leaving no room for the second.
C13_Witness ==
    \E t \in Tasks :
      /\ Finished(t, "PendingEvidence")
      /\ Cur(t).maxBytes >= 0
      /\ Len(Cur(t).out) = 1
      /\ Len(PendingEvidence(-1).evidence) = 2

\* C14: for every negative maxBytes, PendingEvidence(maxBytes) returns what
\* PendingEvidence(-1) returns: every pending record, and their size.
C14_NegativeMaxBytesIsNoCap ==
    \A t \in Tasks :
      ( Finished(t, "PendingEvidence") /\ Cur(t).maxBytes < 0 )
      => /\ Cur(t).out = PendingEvidence(-1).evidence
         /\ Cur(t).size = PendingEvidence(-1).size

\* C15: PendingEvidence changes nothing: the pending and the committed
\* namespace, the gossip list, Size(), the chain state and the pruning
\* watermark are after the call what they were before it.
C15_PendingEvidenceChangesNothing ==
    \A t \in Tasks : Finished(t, "PendingEvidence") => Pool = snap

\* C15 witness: PendingEvidence has returned records of a pool that holds
\* pending and committed evidence.
C15_Witness ==
    \E t \in Tasks :
      /\ Finished(t, "PendingEvidence")
      /\ Cur(t).out # <<>>
      /\ committedDB # EmptyDB

\* heights up to the largest the integers here reach
SampleHeights ==
    KeyEvidence \cup { 1, 4096, 2147483647 }

\* the bytes fmt's %X prints: '0'..'9', 'A'..'F'
HexBytes == (48 .. 57) \cup (65 .. 70)

\* the key suffix of evidence of the given height and hash
KeyOf(height, hash) == bE(height) \o << 47 >> \o HashHex(hash)

\* C16: PendingEvidence returns its items in non-decreasing height: the
\* pending key is the height as 16 zero-padded hexadecimal digits, '/', and
\* the hash, and the store's bytewise order of two keys is the numeric order
\* of their heights, the hash breaking ties.
C16_PendingEvidenceByHeight ==
    /\ \A t \in Tasks :
         Finished(t, "PendingEvidence") =>
           \A i, j \in DOMAIN Cur(t).out :
             i < j => Height(Cur(t).out[i]) <= Height(Cur(t).out[j])
    /\ \A e \in SampleHeights :
         LET k == keyPending(e)
         IN  /\ k = KeyOf(Height(e), Hash(e))
             /\ Len(bE(Height(e))) = 16
             /\ \A i \in 1 .. 16 : k[i] \in HexBytes
    /\ \A h1, h2 \in SampleHeights, x1, x2 \in { 9, 16 } :
         KeyLess(KeyOf(h1, x1), KeyOf(h2, x2))
           <=> (h1 < h2 \/ (h1 = h2 /\ x1 < x2))

\* C16 witness: PendingEvidence has returned three records whose heights
\* have one, two and three hexadecimal digits.
C16_Witness ==
    \E t \in Tasks :
      /\ Finished(t, "PendingEvidence")
      /\ { 9, 16, 256 } \subseteq { Height(Cur(t).out[i]) : i \in DOMAIN Cur(t).out }

\* both age limits of the chain state st are exceeded for the evidence e
BothBoundsExceeded(st, e) ==
    /\ st.LastBlockHeight - Height(e) > st.MaxAgeNumBlocks
    /\ st.LastBlockTime - Time(e) > st.MaxAgeDuration

\* e is in the committed list of an Update in progress
InCommittedList(e) ==
    \E t \in Tasks : Cur(t).op = "Update" /\ e \in ListSet(Cur(t).evs)

\* a step takes e out of the pending namespace or out of the gossip list
Removes(e) ==
    \/ Has(pendingDB, keyPending(e)) /\ ~Has(pendingDB', keyPending(e))
    \/ e \in ListSet(evidenceList) /\ e \notin ListSet(evidenceList')

NoExpiredLeft ==
    \A e \in Evidence \cup Backdated :
      BothBoundsExceeded(state, e)
        => ~isPending(e) /\ e \notin ListSet(evidenceList)

\* C18: after a pruning pass has run, in Update or in NewPool, the store
\* taking the deletions, no evidence for which both age limits are exceeded
\* under the pool's state remains in the pending namespace or in the gossip
\* list, whatever the heights and times of the other pending records.
C18_NoExpiredAfterPruning ==
    /\ \A t \in Tasks :
         ( Finished(t, "Update") /\ Cur(t).pruned /\ Cur(t).failed = {} )
         => NoExpiredLeft
    /\ ("crashed" \in DOMAIN snap /\ snap.failed = {}) => NoExpiredLeft

\* C19: Update with a state whose LastBlockHeight is at most the pool's
\* panics before it changes anything: the chain state, both namespaces, the
\* gossip list, Size() and the pruning watermark are as they were; an Update
\* that does not panic leaves the pool at the greater height of its state,
\* so no step lowers or repeats the pool's LastBlockHeight.
C19_UpdatePanicsOnStaleHeight ==
    /\ [](\A t \in Tasks :
            Finished(t, "Update") =>
              IF Cur(t).st.LastBlockHeight <= snap.state.LastBlockHeight
              THEN Cur(t).ret = "panic" /\ Pool = snap
              ELSE /\ Cur(t).ret = "nil"
                   /\ state = Cur(t).st
                   /\ state.LastBlockHeight > snap.state.LastBlockHeight)
    /\ [][state' # state
            => state'.LastBlockHeight > state.LastBlockHeight]_vars

\* C19 witness: Update has panicked on a state of the pool's own height and
\* a committed list whose item is pending.
C19_Witness ==
    \E t \in Tasks :
      /\ Finished(t, "Update")
      /\ Cur(t).ret = "panic"
      /\ Cur(t).st.LastBlockHeight = snap.state.LastBlockHeight
      /\ Cur(t).st # snap.state
      /\ Cur(t).evs # <<>>
      /\ Has(snap.pendingDB, keyPending(Cur(t).evs[1]))

\* C20: whatever a stop left in the durable store, one between the persist
\* and the list-append of an add included, NewPool returns a pool whose
\* gossip list holds exactly the records that remain under the pending
\* prefix after its expiry pass, each once, in ascending key order, and
\* whose Size() is their number.
C20_NewPoolRebuildsFromStore ==
    "crashed" \in DOMAIN snap =>
      /\ ListSet(evidenceList) = PendingEvidenceSet
      /\ Len(evidenceList) = Cardinality(DOMAIN pendingDB)
      /\ \A i, j \in DOMAIN evidenceList :
           i < j => KeyLess(keyPending(evidenceList[i]),
                            keyPending(evidenceList[j]))
      /\ Size = Cardinality(DOMAIN pendingDB)
      /\ \A e \in PendingEvidenceSet :
           ~isExpired(Height(e), Time(e)) \/ e \in snap.failed

\* C20 witness: the node stopped after an add had persisted its record and
\* before it appended it to the list, and the pool opened on that store
\* holds two records.
C20_Witness ==
    /\ "crashed" \in DOMAIN snap
    /\ \E op \in {"AddEvidence", "AddEvidenceFromConsensus"} :
         snap.crashed \cap { <<op, "inc">>, <<op, "push">> } # {}
    /\ Len(evidenceList) = 2

\* C21: after NewPool has returned, the store taking the deletions of its
\* expiry pass, no element of the gossip list and no pending record, all of
\* them counted in Size(), is expired under the loaded chain state.
C21_NewPoolAdmitsOnlyUnexpired ==
    ("crashed" \in DOMAIN snap /\ snap.failed = {}) =>
      /\ Size = Cardinality(DOMAIN pendingDB)
      /\ \A e \in ListSet(evidenceList) \cup PendingEvidenceSet :
           ~isExpiredAt(state, Height(e), Time(e))


\* the records of a store that unmarshal, in key order
Readable(db) == SelectSeq(NewIterator(db), Unmarshals)

\* C22: a pending record that does not unmarshal is passed over and the scan
\* goes on: PendingEvidence(-1) returns every record that unmarshals, in key
\* order; NewPool returns a pool whose list holds them; and a pruning pass
\* leaves no expired record before the first that has not expired.
C22_UndecodableRecordIsSkipped ==
    /\ \A t \in Tasks :
         (Finished(t, "PendingEvidence") /\ Cur(t).maxBytes = -1
            /\ snap.evidenceSize # 0)
           => Cur(t).out = Readable(snap.pendingDB)
    /\ "crashed" \in DOMAIN snap
         => /\ \A t \in Tasks : Cur(t).pc # "down"
            /\ evidenceList = Readable(pendingDB)
    /\ \A t \in Tasks :
         (Finished(t, "Update") /\ Cur(t).pruned /\ Cur(t).failed = {})
           => \A e \in ListSet(Readable(pendingDB)) :
                isExpiredAt(state, Height(e), Time(e))
                  => \E d \in ListSet(Readable(pendingDB)) :
                       /\ KeyLess(keyPending(d), keyPending(e))
                       /\ ~isExpiredAt(state, Height(d), Time(d))


\* C23: an AddEvidence that fails admits nothing. When verification fails
\* the call returns an invalid-evidence error carrying the item and the
\* reason; when the store fails the write of the record the call returns
\* that error; and after either the pending records, the list and Size()
\* (the whole pool) are as they were before the call.
C23_FailedAddEvidenceAdmitsNothing ==
    \A t \in Tasks :
      Finished(t, "AddEvidence") =>
        LET r == Cur(t)
            e == r.ev
        IN  /\ (e \in r.verified /\ ~verifyAt(snap.state, e))
                 => r.ret = "ErrInvalidEvidence:verify"
            /\ r.ret = "ErrInvalidEvidence:verify"
                 => r.rev = e /\ ~verifyAt(snap.state, e)
            /\ e \in r.failed => r.ret = "error:persist"
            /\ r.ret # "nil"
                 => /\ Pool = snap
                    /\ ~isPending(e)
                    /\ e \notin ListSet(evidenceList)

\* an AddEvidence on a pool that holds a record returned the store's error
C23_Witness ==
    \E t \in Tasks :
      /\ Finished(t, "AddEvidence")
      /\ Cur(t).ret = "error:persist"
      /\ Cur(t).ev \in Cur(t).failed
      /\ Size = 1


\* the items of the committed list l that were pending when the call began
WerePending(l) == { e \in ListSet(l) : Has(snap.pendingDB, keyPending(e)) }

\* C24: an Update whose store writes succeed leaves a committed marker,
\* keyed by height and hash and holding the height, for every item of its
\* committed list, pending or not; before its pruning step it has removed
\* from the pending records, the list and the counter exactly the items of
\* that list that were pending; and no step of the pool removes or changes
\* a committed marker.
C24_UpdateMarksEveryCommittedItem ==
    /\ [](\A t \in Tasks :
            (Finished(t, "Update") /\ Cur(t).ret = "nil" /\ Cur(t).failed = {})
              => LET l == Cur(t).evs
                 IN  /\ \A e \in ListSet(l) :
                          /\ Has(committedDB, keyCommitted(e))
                          /\ committedDB[keyCommitted(e)] = Height(e)
                          /\ ~isPending(e)
                          /\ e \in WerePending(l) => e \notin ListSet(evidenceList)
                     /\ ~Cur(t).pruned =>
                          /\ DOMAIN pendingDB = DOMAIN snap.pendingDB
                               \ { keyPending(e) : e \in WerePending(l) }
                          /\ evidenceList = SelectSeq(snap.evidenceList,
                               LAMBDA e : e \notin WerePending(l))
                          /\ Size = snap.evidenceSize
                                      - Cardinality(WerePending(l)))
    /\ [][\A k \in DOMAIN committedDB :
            /\ k \in DOMAIN committedDB'
            /\ committedDB'[k] = committedDB[k]]_vars

\* an Update has committed two items, one that was pending and one that was
\* not, and both have their markers
C24_Witness ==
    \E t \in Tasks :
      /\ Finished(t, "Update")
      /\ Cur(t).ret = "nil"
      /\ Cur(t).failed = {}
      /\ Len(Cur(t).evs) = 2
      /\ Cardinality(WerePending(Cur(t).evs)) = 1
      /\ \A e \in ListSet(Cur(t).evs) : isCommitted(e)
      /\ Cardinality(DOMAIN committedDB) = 2


\* C25: whatever the store fails (the write of a committed marker, the
\* delete of a pending record), an Update whose height check passed returns
\* normally: the pool's state is the one it was handed, every item of the
\* committed list whose own writes succeeded has its marker and is no longer
\* pending, and the pruning condition was evaluated (the pass ran if and
\* only if records were left and the state was beyond the watermark).
C25_UpdateSurvivesStoreFailure ==
    \A t \in Tasks :
      (Finished(t, "Update") /\ Cur(t).st.LastBlockHeight > snap.state.LastBlockHeight)
        => LET r == Cur(t)
           IN  /\ r.ret = "nil"
               /\ state = r.st
               /\ \A e \in ListSet(r.evs) \ r.failed :
                    isCommitted(e) /\ ~isPending(e)
               /\ r.pruned => /\ r.st.LastBlockHeight > snap.pruningHeight
                              /\ r.st.LastBlockTime > snap.pruningTime
               /\ ~r.pruned => /\ pruningHeight = snap.pruningHeight
                               /\ pruningTime = snap.pruningTime
                               /\ ~(/\ Size # 0
                                    /\ r.st.LastBlockHeight > pruningHeight
                                    /\ r.st.LastBlockTime > pruningTime)

\* an Update of two items has returned after the store failed a write for
\* the first: the second has its marker, and the pruning pass ran
C25_Witness ==
    \E t \in Tasks :
      /\ Finished(t, "Update")
      /\ Cur(t).ret = "nil"
      /\ Len(Cur(t).evs) = 2
      /\ Cur(t).evs[1] \in Cur(t).failed
      /\ ~isCommitted(Cur(t).evs[1])
      /\ Cur(t).evs[2] \notin Cur(t).failed
      /\ isCommitted(Cur(t).evs[2])
      /\ Cur(t).pruned
      /\ state = Cur(t).st


\* the pending records when the pruning pass of the finished Update of task
\* t began: those of the call's beginning but the committed ones
AtPassBegin(t) ==
    SelectSeq(NewIterator(snap.pendingDB),
              LAMBDA e : e \notin ListSet(Cur(t).evs))

\* the position in iter of the first record that isExpired rejects under st,
\* Len(iter) + 1 when there is none
RECURSIVE FirstUnexpired(_, _, _)
FirstUnexpired(iter, st, i) ==
    IF i > Len(iter) \/ ~isExpiredAt(st, Height(iter[i]), Time(iter[i]))
    THEN i
    ELSE FirstUnexpired(iter, st, i + 1)

\* C30: a pruning pass whose deletes succeed removes, in key order, the
\* expired records up to the first record ev that has not expired, keeps ev
\* and every later record, expired or not, and leaves the watermark at
\* (ev.height + MaxAgeNumBlocks + 1, ev.time + MaxAgeDuration + 1 second);
\* with no such record it leaves the watermark at the pool's
\* (LastBlockHeight, LastBlockTime).
C30_PruningPassStopsAtFirstUnexpired ==
    \A t \in Tasks :
      (Finished(t, "Update") /\ Cur(t).pruned /\ Cur(t).failed = {})
        => LET iter == AtPassBegin(t)
               stop == FirstUnexpired(iter, state, 1)
           IN  /\ NewIterator(pendingDB) = SubSeq(iter, stop, Len(iter))
               /\ evidenceList = SelectSeq(snap.evidenceList,
                    LAMBDA e : \E i \in stop .. Len(iter) : iter[i] = e)
               /\ stop <= Len(iter)
                    => /\ pruningHeight
                            = Height(iter[stop]) + state.MaxAgeNumBlocks + 1
                       /\ pruningTime
                            = Time(iter[stop]) + state.MaxAgeDuration + 1
               /\ stop > Len(iter)
                    => /\ pruningHeight = state.LastBlockHeight
                       /\ pruningTime = state.LastBlockTime

\* a pass has stopped at a record that has not expired and left an expired
\* record behind it
C30_Witness ==
    \E t \in Tasks :
      /\ Finished(t, "Update")
      /\ Cur(t).pruned
      /\ Cur(t).failed = {}
      /\ Len(AtPassBegin(t)) = 2
      /\ FirstUnexpired(AtPassBegin(t), state, 1) = 1
      /\ BothBoundsExceeded(state, AtPassBegin(t)[2])
      /\ Cardinality(DOMAIN pendingDB) = 2


\* C26: once the peer or the reactor has quit, the broadcast routine of the
\* peer returns, wherever in its loop it stands: waiting for the first vote,
\* retrying a failed send, or waiting for the next vote or the rebroadcast
\* timer.
C26_BroadcastRoutineTerminates ==
    /\ Quit ~> (bcast.pc = "returned")
    /\ [][bcast.pc = "returned" => bcast'.pc = "returned"]_vars

\* the routine returned while it was retrying a failed send
C26_Witness ==
    /\ bcast.pc = "returned"
    /\ bcast.exit = "retry"
    /\ ~running.peer
    /\ bcast.next \in VoteLive

\* C27: the routine's cursor leaves a vote only after a Send of that vote
\* succeeded: after a failed Send it retries the same vote; and every vote
\* that is in the list is sent successfully, unless it is removed or the
\* peer or the reactor quits.
C27_BroadcastDeliversAtLeastOnce ==
    /\ [][(bcast.next # 0 /\ bcast'.next # bcast.next)
            => bcast.next \in bcast.sent]_vars
    /\ \A v \in 1 .. MaxVotes :
         (v \in VoteLive) ~> (v \in bcast.sent \/ v \notin VoteLive \/ Quit)

\* every vote of the list was sent, after a Send had failed and after the
\* routine stood on an element that was removed
C27_Witness ==
    /\ Len(voteList) = MaxVotes
    /\ VoteLive # {}
    /\ VoteLive # DOMAIN voteList
    /\ VoteLive \subseteq bcast.sent
    /\ bcast.retried
    /\ ~Quit


\* C28: Stop terminates: once the subscription is unsubscribed the event
\* loop returns, and Stop's wait on the WaitGroup returns.
C28_StopTerminates ==
    (txlife.stop # "none")
      ~> (txlife.loop = "returned" /\ txlife.stop = "returned")

\* C29: Pending(limit, removeResult) returns at most limit transactions.
C29_PendingWithinLimit ==
    (txpool.call.op = "Pending" /\ txpool.call.limit >= 0)
      => Len(txpool.call.out) <= txpool.call.limit


\* the pending records of the call's beginning but those of the committed
\* list l
WithoutCommitted(l) ==
    [k \in DOMAIN snap.pendingDB \ { keyPending(e) : e \in WerePending(l) }
       |-> snap.pendingDB[k]]

\* C31: Update replaces the state before it writes a marker or removes a
\* record, and marks its whole list before the pruning pass begins; the
\* pass runs if and only if, after the marking, Size() > 0 and the new
\* height and time are beyond the watermark; when it does not run the
\* watermark is unchanged and the only records removed are the committed
\* ones.
C31_UpdateOrderAndPruningCondition ==
    /\ [](\A t \in Tasks :
            (Finished(t, "Update") /\ Cur(t).ret = "nil" /\ Cur(t).failed = {})
              => LET r == Cur(t)
                     size == snap.evidenceSize - Cardinality(WerePending(r.evs))
                 IN  /\ state = r.st
                     /\ r.pruned <=> /\ size # 0
                                     /\ r.st.LastBlockHeight > snap.pruningHeight
                                     /\ r.st.LastBlockTime > snap.pruningTime
                     /\ ~r.pruned => /\ pruningHeight = snap.pruningHeight
                                     /\ pruningTime = snap.pruningTime
                                     /\ pendingDB = WithoutCommitted(r.evs)
                                     /\ Size = size)
    /\ [][\A t \in Tasks :
            (Cur(t).op = "Update" /\ Running(t) /\ task'[t].op = "Update")
              => /\ (pendingDB' # pendingDB \/ committedDB' # committedDB
                       \/ evidenceList' # evidenceList)
                      => state = Cur(t).st
                 /\ committedDB' # committedDB => ~Cur(t).pruned]_vars

\* an Update has marked a pending item and returned without a pruning pass,
\* records being left, because the time of the watermark was not passed
C31_Witness ==
    \E t \in Tasks :
      /\ Finished(t, "Update")
      /\ Cur(t).ret = "nil"
      /\ Cur(t).failed = {}
      /\ ~Cur(t).pruned
      /\ WerePending(Cur(t).evs) # {}
      /\ Size # 0
      /\ Cur(t).st.LastBlockHeight > pruningHeight
      /\ state # snap.state


\* C32: no call reads or writes the pool's chain state without holding the
\* pool's mutex, the height check at the start of Update included.
C32_StateOnlyUnderMutex ==
    \A t \in Tasks : Cur(t).access # "unlocked"


\* C33: evidence whose height is above the chain's last block height is
\* never treated as expired: the pruning pass selects for deletion only
\* records at or below the last block height.
C33_FutureEvidenceNeverExpired ==
    \A t \in Tasks :
      Cur(t).pc = "prune_del" => Height(Cur(t).ev) <= state.LastBlockHeight


\* C34: a pending record is written only by AddEvidenceFromConsensus or for
\* an item the same call has just verified successfully, and the fast path of
\* CheckEvidence accepts an item without verification only if it has a
\* pending record.
C34_PendingRecordsVerifiedOrTrusted ==
    [][/\ \A k \in DOMAIN pendingDB' :
            (k \notin DOMAIN pendingDB \/ pendingDB'[k] # pendingDB[k])
              => \E t \in Tasks :
                   /\ Cur(t).pc = "put"
                   /\ k = keyPending(Cur(t).ev)
                   /\ pendingDB'[k] = Cur(t).ev
                   /\ \/ Cur(t).op = "AddEvidenceFromConsensus"
                      \/ /\ Cur(t).op \in {"AddEvidence", "CheckEvidence"}
                         /\ Cur(t).ev \in Cur(t).verified
                         /\ verify(Cur(t).ev)
       /\ \A t \in Tasks :
            (/\ task'[t].op = "CheckEvidence"
             /\ task'[t].evs # <<>>
             /\ Cur(t).pc \in {"idle", "chk_fast"}
             /\ task'[t].pc # "chk_isCommitted")
              => LET item == IF Cur(t).pc = "idle" THEN task'[t].evs[1]
                                                   ELSE Cur(t).ev
                 IN  /\ isPending(item)
                     /\ pendingDB[keyPending(item)] = item]_vars

C34_Witness ==
    \E t \in Tasks :
      /\ Finished(t, "CheckEvidence")
      /\ Cur(t).ret = "nil"
      /\ Len(Cur(t).evs) = 2
      /\ Cardinality(Cur(t).verified) = 1
      /\ Cur(t).failed = {}
      /\ \A i \in 1 .. 2 : isPending(Cur(t).evs[i])
      /\ \E i \in 1 .. 2 : Cur(t).evs[i] \notin Cur(t).verified


\* C35: a CheckEvidence that rejects its list rolls nothing back: every item
\* it verified and stored before the offending one, the first copy of a
\* duplicated item included, is pending at the return and counted by Size();
\* a failure of the store while admitting a verified item never rejects the
\* list, whose result depends on the items alone.
C35_RejectedBatchKeepsAdmitted ==
    \A t \in Tasks :
      Finished(t, "CheckEvidence") =>
        LET r == Cur(t)
            l == r.evs
            new == DOMAIN pendingDB \ DOMAIN snap.pendingDB
        IN  /\ r.ret # "error:persist"
            /\ r.ret = "nil" <=> /\ \A i \in DOMAIN l : Accepts(snap, l[i])
                                 /\ ~HasDuplicate(l)
            /\ \A e \in r.verified :
                 (verifyAt(snap.state, e) /\ e \notin r.failed)
                   => /\ isPending(e)
                      /\ keyPending(e) \in new
            /\ DOMAIN snap.pendingDB \subseteq DOMAIN pendingDB
            /\ Size = snap.evidenceSize + Cardinality(new)

C35_Witness ==
    \E t \in Tasks :
      /\ Finished(t, "CheckEvidence")
      /\ Cur(t).ret = "ErrInvalidEvidence:duplicate"
      /\ Cur(t).rev \in Cur(t).verified
      /\ Cur(t).failed = {}
      /\ isPending(Cur(t).rev)
      /\ ~Has(snap.pendingDB, keyPending(Cur(t).rev))
      /\ Size = snap.evidenceSize + 1


Ascending(l) == \A i, j \in DOMAIN l : i < j => Height(l[i]) <= Height(l[j])

\* the step opened the pool again
Restarted == "crashed" \in DOMAIN snap' /\ task' \in [Tasks -> {Idle, Down}]

\* C36: the gossip list is in ascending order of height when NewPool has
\* built it; afterwards a step changes it only by appending one element at
\* the back or by deleting elements, the others keeping their order, and a
\* deletion takes out exactly the elements whose hash is in the set of the
\* call.
C36_GossipListKeepsOrder ==
    [][/\ Restarted => Ascending(evidenceList')
       /\ (~Restarted /\ evidenceList' # evidenceList)
            => \E t \in Tasks :
                 \/ /\ Cur(t).pc = "push"
                    /\ evidenceList' = evidenceList \o <<Cur(t).ev>>
                 \/ /\ Cur(t).pc \in {"mark_list", "prune_list"}
                    /\ evidenceList'
                         = SelectSeq(evidenceList,
                                     LAMBDA e : e \in ListSet(evidenceList'))
                    /\ ListSet(evidenceList) \ ListSet(evidenceList')
                         = { e \in ListSet(evidenceList) :
                               Hash(e) \in { Hash(x) : x \in
                                 { y \in (Evidence \cup Backdated) :
                                     evMapKey(y) \in Cur(t).map } } }]_vars

C36_Witness ==
    \E t \in Tasks :
      /\ Finished(t, "Update")
      /\ Len(snap.evidenceList) = 3
      /\ evidenceList = <<snap.evidenceList[1], snap.evidenceList[3]>>
      /\ Height(evidenceList[1]) > Height(evidenceList[2])


\* C37: a call of lockedReset completes: it takes the pool's lock, runs
\* reset, releases the lock and returns.
C37_LockedResetCompletes ==
    (txlife.reset = "reset") ~> (txlife.reset = "returned")


RECURSIVE SumLen(_, _)
SumLen(f, S) ==
    IF S = {} THEN 0
    ELSE LET a == CHOOSE x \in S : TRUE IN Len(f[a]) + SumLen(f, S \ {a})

\* C38: after any sequence of additions, Pending calls with or without
\* removal, RemoveTxs and ClearPending the counter pendingSize equals the
\* number of transactions in the pending map, which PendingSize() returns,
\* and has not gone below zero (a uint that would wrap).
C38_PendingSizeCountsPending ==
    /\ txpool.pendingSize = SumLen(txpool.pending, TxSenders)
    /\ txpool.pendingSize >= 0

C38_Witness ==
    /\ txpool.all # {}
    /\ txpool.call.op = "Pending"
    /\ txpool.call.out # <<>>
    /\ txpool.pendingSize = 1
    /\ \E a \in TxSenders : txpool.pending[a] = <<>> /\ txpool.addressState[a] > 0


\* C39: the run loop keeps serving: it returns only when Quit has fired, and
\* every deposit and every validator set offered on its channels is
\* eventually handled.
C39_RunServesUntilQuit ==
    /\ [](runloop.pc = "returned" => runloop.ret = "quit")
    /\ \A n \in 1 .. MaxEvents :
         /\ (runloop.depositC + runloop.deposits >= n)
              ~> (runloop.deposits >= n)
         /\ (runloop.valSetC + runloop.valSets >= n)
              ~> (runloop.valSets >= n)

============================================================================
